---- MODULE Spec2Model ----
(***************************************************************************)
(* Model of the HTML Simulator API (main.py, src/database.py): a cache of  *)
(* generated HTML pages.  Metadata rows live in the SQLite table           *)
(* `simulations`, content in files html_cache/<cache_key>.html.            *)
(* Each HTTP request is handled by a process that walks through the        *)
(* handler's calls one store operation at a time, so that requests         *)
(* interleave between (never inside) individual SQL transactions and file  *)
(* operations.                                                             *)
(***************************************************************************)
EXTENDS Integers, Sequences, FiniteSets, TLC

(* ------------------------------ bounds --------------------------------- *)
\* number of requests started in one behaviour
MaxReqs == 2
\* last value of the logical clock behind CURRENT_TIMESTAMP
MaxClock == 1

Procs == {"p1", "p2"}

(* ------------------------- values and requests ------------------------- *)
\* Python None / SQL NULL, and a present optional value
None == <<>>

Some(v) == <<v>>

CACHE_DIR == "html_cache"

\* SimulationRequest objects after validation (ids are int or None)
Requests ==
    { [topic |-> "Gravity", topic_id |-> Some(5), chapter |-> "Mechanics", chapter_id |-> Some(2),
       subject |-> "Physics", subject_id |-> Some(1), level |-> 10],
      [topic |-> "Optics", topic_id |-> Some(-6), chapter |-> "Light", chapter_id |-> Some(2),
       subject |-> "Physics", subject_id |-> Some(1), level |-> 10],
      [topic |-> "Gravity", topic_id |-> None, chapter |-> "Mechanics", chapter_id |-> Some(2),
       subject |-> "Physics", subject_id |-> Some(1), level |-> 10] }

\* the backquote character (the lexer does not accept it inside a string)
BQ == "bq"

\* texts the Gemini call can return (response.text), as character sequences
RawResponses ==
    { <<" ", "B", "\n">>,
      <<BQ, BQ, BQ, "h", "t", "m", "l", "\n", "A", "\n", BQ, BQ, BQ>>,
      <<BQ, BQ, BQ, "\n", BQ, BQ, BQ>> }

(* ----------------------------- key deriver ----------------------------- *)
DigitChar(d) == CASE d = 0 -> "0" [] d = 1 -> "1" [] d = 2 -> "2" [] d = 3 -> "3"
                  [] d = 4 -> "4" [] d = 5 -> "5" [] d = 6 -> "6" [] d = 7 -> "7"
                  [] d = 8 -> "8" [] d = 9 -> "9"

RECURSIVE NatStr(_)
NatStr(n) == IF n < 10 THEN <<DigitChar(n)>> ELSE Append(NatStr(n \div 10), DigitChar(n % 10))

\* str.format of an int or None inside an f-string
FmtInt(n) == IF n < 0 THEN <<"-">> \o NatStr(-n) ELSE NatStr(n)

FmtField(v) == IF v = None THEN <<"N", "o", "n", "e">> ELSE FmtInt(v[1])

\* a key string that also carries the topic's display name
KeyString_WithTopic(request) ==
    <<request.topic, "_">> \o FmtField(request.topic_id) \o <<"_">>
      \o FmtField(request.chapter_id) \o <<"_">>
      \o FmtField(request.subject_id) \o <<"_">> \o FmtInt(request.level)

\* a key string that concatenates the fields without the "_" between them
KeyString_NoDelimiter(request) ==
    FmtField(request.topic_id) \o FmtField(request.chapter_id)
      \o FmtField(request.subject_id) \o FmtInt(request.level)

KeyString(request) ==
    FmtField(request.topic_id) \o <<"_">> \o FmtField(request.chapter_id) \o <<"_">>
      \o FmtField(request.subject_id) \o <<"_">> \o FmtInt(request.level)

\* hashlib.md5(...).hexdigest(): the digest is taken as collision-free
md5_hexdigest(s) == <<"md5">> \o s

generate_cache_key(request) == md5_hexdigest(KeyString(request))

FilePath(cache_key) == <<CACHE_DIR, "/">> \o cache_key \o <<".html">>

Keys == { generate_cache_key(r) : r \in Requests }

(* -------------------------- generation client -------------------------- *)
IsWs(c) == c \in {" ", "\n"}

RECURSIVE LStrip(_)
LStrip(s) == IF s = <<>> THEN s ELSE IF IsWs(Head(s)) THEN LStrip(Tail(s)) ELSE s

RECURSIVE RStrip(_)
RStrip(s) == IF s = <<>> THEN s
             ELSE IF IsWs(s[Len(s)]) THEN RStrip(SubSeq(s, 1, Len(s) - 1)) ELSE s

Strip(s) == RStrip(LStrip(s))

StartsWith(s, pre) == Len(s) >= Len(pre) /\ SubSeq(s, 1, Len(pre)) = pre

EndsWith(s, suf) == Len(s) >= Len(suf) /\ SubSeq(s, Len(s) - Len(suf) + 1, Len(s)) = suf

Fence == <<BQ, BQ, BQ>>

FenceHtml == Fence \o <<"h", "t", "m", "l">>

\* post-processing of response.text in generate_html_with_gemini
ExtractHtml(text) ==
    LET h0 == Strip(text)
        h1 == IF StartsWith(h0, FenceHtml) THEN SubSeq(h0, 8, Len(h0)) ELSE h0
        h2 == IF StartsWith(h1, Fence) THEN SubSeq(h1, 4, Len(h1)) ELSE h1
        h3 == IF EndsWith(h2, Fence) THEN SubSeq(h2, 1, Len(h2) - 3) ELSE h2
    IN  Strip(h3)

\* Python truthiness of a str
Truthy(s) == s # <<>>

(* -------------------------- request validation ------------------------- *)
\* an id as it arrives in the JSON body: null, a JSON integer or a JSON string
RawInt(n) == [t |-> "int", v |-> n, s |-> <<>>]

RawStr(str) == [t |-> "str", v |-> 0, s |-> str]

RawTopicIds ==
    { None, RawInt(1), RawInt(11), RawInt(-1), RawStr(<<"-", "1">>),
      RawStr(<<" ", "0", "1", "1", "\n">>), RawStr(<<"x">>) }

RawChapterIds == { RawInt(12), RawInt(2), RawStr(<<"+", "2">>) }

RawSubjectIds == { RawInt(1) }

RawRequest(names, t, c, sb, lv) ==
    [topic |-> names[1], topic_id |-> t, chapter |-> names[2], chapter_id |-> c,
     subject |-> "Physics", subject_id |-> sb, level |-> lv]

\* every combination of the ids and two levels under one set of display
\* names, and two of them again under other display names
RawRequests ==
    { RawRequest(<<"Gravity", "Mechanics">>, t, c, sb, lv) :
        t \in RawTopicIds, c \in RawChapterIds, sb \in RawSubjectIds, lv \in {1, 11} }
    \cup { RawRequest(<<"Optics", "Light">>, t, RawInt(2), RawInt(1), 1) :
             t \in { RawInt(-1), RawStr(<<"-", "1">>) } }

IsDigit(c) == c \in {"0", "1", "2", "3", "4", "5", "6", "7", "8", "9"}

DigitVal(c) == CHOOSE d \in 0..9 : DigitChar(d) = c

\* the value of a string of decimal digits read from the left, -1 when a
\* character is not a digit
RECURSIVE ParseDigits(_, _)
ParseDigits(str, acc) ==
    IF str = <<>> THEN acc
    ELSE IF ~IsDigit(Head(str)) THEN -1
    ELSE ParseDigits(Tail(str), 10 * acc + DigitVal(Head(str)))

ParseNat(str) == IF str = <<>> THEN -1 ELSE ParseDigits(str, 0)

\* int(v) of a str: surrounding whitespace is dropped, one sign is allowed,
\* leading zeros are allowed; None stands for ValueError
int_of_str(str) ==
    LET body == Strip(str)
        digits == IF body # <<>> /\ Head(body) \in {"+", "-"} THEN Tail(body) ELSE body
    IN  IF ParseNat(digits) < 0 THEN None
        ELSE IF Head(body) = "-" THEN Some(-ParseNat(digits))
        ELSE Some(ParseNat(digits))

\* the field validator of the three ids: ok is false when it raises
convert_to_int(v) ==
    IF v = None THEN [ok |-> TRUE, value |-> None]
    ELSE IF v.t = "int" THEN [ok |-> TRUE, value |-> Some(v.v)]
    ELSE [ok |-> int_of_str(v.s) # None, value |-> int_of_str(v.s)]

\* SimulationRequest(**body): the request the handler receives
Validated(raw) ==
    [raw EXCEPT !.topic_id = convert_to_int(raw.topic_id).value,
                !.chapter_id = convert_to_int(raw.chapter_id).value,
                !.subject_id = convert_to_int(raw.subject_id).value]

IsValid(raw) ==
    /\ convert_to_int(raw.topic_id).ok
    /\ convert_to_int(raw.chapter_id).ok
    /\ convert_to_int(raw.subject_id).ok

(* ---------------------------- metadata store --------------------------- *)
RowsWithKey(tbl, cache_key) == { r \in tbl : r.cache_key = cache_key }

\* an INSERT into a table whose cache_key column is not declared UNIQUE
insert_simulation_NoUnique(tbl, cache_key, request, simulation_type, file_path, t) ==
    IF None \in {request.topic_id, request.chapter_id, request.subject_id}
    THEN [err |-> "IntegrityError: NOT NULL", table |-> tbl]
    ELSE [err |-> "none",
          table |-> tbl \cup
            { [cache_key |-> cache_key, topic |-> request.topic, topic_id |-> request.topic_id,
               chapter |-> request.chapter, chapter_id |-> request.chapter_id,
               subject |-> request.subject, subject_id |-> request.subject_id,
               level |-> request.level, simulation_type |-> simulation_type,
               file_path |-> file_path, created_at |-> t, accessed_at |-> t,
               access_count |-> 0] }]

\* INSERT INTO simulations: the id columns are NOT NULL, cache_key is UNIQUE;
\* created_at and accessed_at default to CURRENT_TIMESTAMP, access_count to 0
insert_simulation(tbl, cache_key, request, simulation_type, file_path, t) ==
    IF None \in {request.topic_id, request.chapter_id, request.subject_id}
    THEN [err |-> "IntegrityError: NOT NULL", table |-> tbl]
    ELSE IF RowsWithKey(tbl, cache_key) # {}
    THEN [err |-> "IntegrityError: UNIQUE", table |-> tbl]
    ELSE [err |-> "none",
          table |-> tbl \cup
            { [cache_key |-> cache_key, topic |-> request.topic, topic_id |-> request.topic_id,
               chapter |-> request.chapter, chapter_id |-> request.chapter_id,
               subject |-> request.subject, subject_id |-> request.subject_id,
               level |-> request.level, simulation_type |-> simulation_type,
               file_path |-> file_path, created_at |-> t, accessed_at |-> t,
               access_count |-> 0] }]

\* SELECT * FROM simulations WHERE cache_key = ? and fetchone()
select_by_cache_key(tbl, cache_key) ==
    IF RowsWithKey(tbl, cache_key) = {} THEN None
    ELSE CHOOSE r \in RowsWithKey(tbl, cache_key) : TRUE

\* an UPDATE that refreshes the timestamp and forgets the counter
update_access_OnlyTimestamp(tbl, cache_key, t) ==
    { IF r.cache_key = cache_key THEN [r EXCEPT !.accessed_at = t] ELSE r : r \in tbl }

\* UPDATE simulations SET accessed_at = CURRENT_TIMESTAMP,
\* access_count = access_count + 1 WHERE cache_key = ?
update_access(tbl, cache_key, t) ==
    { IF r.cache_key = cache_key
      THEN [r EXCEPT !.accessed_at = t, !.access_count = @ + 1]
      ELSE r : r \in tbl }

\* SELECT by cache_key, then UPDATE of the access statistics when a row was
\* fetched; the dict returned is the row as selected, before the update
\* (the call as a whole, when nothing else writes between its two statements)
get_simulation_by_cache_key(tbl, cache_key, t) ==
    IF select_by_cache_key(tbl, cache_key) = None THEN [row |-> None, table |-> tbl]
    ELSE [row |-> select_by_cache_key(tbl, cache_key),
          table |-> update_access(tbl, cache_key, t)]

\* the orders ORDER BY created_at DESC may return (ties in any order)
NewestFirst(S) ==
    { s \in [1..Cardinality(S) -> S] :
        \A i, j \in 1..Cardinality(S) :
            i < j => s[i] # s[j] /\ s[i].created_at >= s[j].created_at }

\* get_all_simulations(limit, offset, level=level); limit and level are
\* optional, and OFFSET is only part of the query when a limit is given
get_all_simulations(tbl, limit, offset, level) ==
    LET sel == { r \in tbl : level = None \/ r.level = level[1] }
    IN  { IF limit # None /\ limit[1] # 0
          THEN SubSeq(s, offset + 1, IF offset + limit[1] < Len(s) THEN offset + limit[1] ELSE Len(s))
          ELSE s : s \in NewestFirst(sel) }

get_simulation_count(tbl, level) ==
    Cardinality({ r \in tbl : level = None \/ r.level = level[1] })

\* mutant: the DELETE is not committed
delete_simulation_by_cache_key_NoCommit(tbl, cache_key) ==
    [deleted |-> RowsWithKey(tbl, cache_key) # {}, table |-> tbl]

\* mutant: returns cursor.rowcount >= 0
delete_simulation_by_cache_key_RowcountGE0(tbl, cache_key) ==
    [deleted |-> TRUE, table |-> tbl \ RowsWithKey(tbl, cache_key)]

\* DELETE ... WHERE cache_key = ?; returns cursor.rowcount > 0
delete_simulation_by_cache_key(tbl, cache_key) ==
    [deleted |-> RowsWithKey(tbl, cache_key) # {},
     table |-> tbl \ RowsWithKey(tbl, cache_key)]

\* mutant: the rows are counted after the DELETE
delete_all_simulations_CountAfter(tbl) == [count |-> 0, table |-> {}]

\* SELECT COUNT(*) followed by DELETE FROM simulations, in one transaction
delete_all_simulations(tbl) == [count |-> Cardinality(tbl), table |-> {}]

\* the counting columns of get_statistics
get_statistics(tbl) ==
    [total_simulations |-> Cardinality(tbl),
     unique_subjects |-> Cardinality({ r.subject_id : r \in tbl }),
     unique_levels |-> Cardinality({ r.level : r \in tbl })]

\* the characters of the display names in use
Chars(name) ==
    CASE name = "Gravity" -> <<"G", "r", "a", "v", "i", "t", "y">>
      [] name = "Optics" -> <<"O", "p", "t", "i", "c", "s">>
      [] name = "Mechanics" -> <<"M", "e", "c", "h", "a", "n", "i", "c", "s">>
      [] name = "Light" -> <<"L", "i", "g", "h", "t">>
      [] name = "Physics" -> <<"P", "h", "y", "s", "i", "c", "s">>

UpperCase ==
    <<"A", "B", "C", "D", "E", "F", "G", "H", "I", "J", "K", "L", "M",
      "N", "O", "P", "Q", "R", "S", "T", "U", "V", "W", "X", "Y", "Z">>

LowerCase ==
    <<"a", "b", "c", "d", "e", "f", "g", "h", "i", "j", "k", "l", "m",
      "n", "o", "p", "q", "r", "s", "t", "u", "v", "w", "x", "y", "z">>

\* SQLite compares the ASCII letters of a LIKE pattern without regard to case
FoldCase(c) ==
    IF \E i \in DOMAIN UpperCase : UpperCase[i] = c
    THEN LowerCase[CHOOSE i \in DOMAIN UpperCase : UpperCase[i] = c]
    ELSE c

FoldSeq(str) == [i \in DOMAIN str |-> FoldCase(str[i])]

\* the match of a pattern against a text, both already folded: % stands for
\* any run of characters, _ for one character
RECURSIVE LikeFolded(_, _)
LikeFolded(text, pattern) ==
    IF pattern = <<>> THEN text = <<>>
    ELSE IF Head(pattern) = "%"
    THEN LikeFolded(text, Tail(pattern)) \/ (text # <<>> /\ LikeFolded(Tail(text), pattern))
    ELSE /\ text # <<>>
         /\ Head(pattern) = "_" \/ Head(pattern) = Head(text)
         /\ LikeFolded(Tail(text), Tail(pattern))

\* text LIKE pattern
Like(text, pattern) == LikeFolded(FoldSeq(text), FoldSeq(pattern))

\* search_simulations(search_term, search_fields): the rows selected by
\* "f1 LIKE ? OR f2 LIKE ? ..." with the pattern %search_term%, in the orders
\* ORDER BY created_at DESC may return; an empty search_fields stands for the
\* argument left out
search_simulations(tbl, search_term, search_fields) ==
    LET fields == IF search_fields = {} THEN {"topic", "chapter", "subject"}
                  ELSE search_fields
        search_pattern == <<"%">> \o search_term \o <<"%">>
    IN  NewestFirst({ r \in tbl : \E f \in fields : Like(Chars(r[f]), search_pattern) })

(* --------------------------- content store ----------------------------- *)
\* open(file_path, "w") and write
WriteFile(fs, path, content) ==
    [q \in DOMAIN fs \cup {path} |-> IF q = path THEN content ELSE fs[q]]

\* Path.unlink()
Unlink(fs, path) == [q \in DOMAIN fs \ {path} |-> fs[q]]

\* mutant: no file_path.exists() check, a missing file reads as a placeholder
read_cached_file_NoExistsCheck(simulation, fs) ==
    IF simulation = None THEN None
    ELSE IF simulation.file_path \in DOMAIN fs
    THEN Some(fs[simulation.file_path]) ELSE Some(<<"?">>)

\* the file part of get_cached_html: the content when the row's file exists
\* (a file that vanishes before open() raises, which also yields None)
read_cached_file(simulation, fs) ==
    IF simulation # None /\ simulation.file_path \in DOMAIN fs
    THEN Some(fs[simulation.file_path]) ELSE None

\* `if cached_html:` in generate_simulation (`if not html_content` in get_simulation)
IsCacheHit(cached_html) == cached_html # None /\ Truthy(cached_html[1])

(* ------------------------------- state --------------------------------- *)
VARIABLES
    table,      \* the rows of the simulations table
    files,      \* the content store: file path -> content, for the files that exist
    now,        \* CURRENT_TIMESTAMP
    nreq,       \* requests started so far
    pc,         \* where each process is in its handler
    loc,        \* each handler's local variables and its response
    solo,       \* history: nothing but this process's request has acted since it started
    snap,       \* history, while solo: the table and the files when the request started
    prev        \* history, while solo: the response that came just before the request

vars == <<table, files, now, nreq, pc, loc, solo, snap, prev>>

NoSnap == [table |-> {}, files |-> << >>]

IdleLoc ==
    [kind |-> "none", request |-> None, cache_key |-> None, simulation |-> None,
     html_content |-> <<>>, gen_calls |-> 0, exists |-> FALSE, simulations |-> <<>>,
     deleted_files |-> 0, status |-> 0, body |-> None, deleted_count |-> 0, err |-> "none",
     read_failed |-> FALSE, raw |-> None, search_term |-> <<>>, search_fields |-> {},
     limit |-> None, total |-> 0]

Init ==
    /\ table = {}
    /\ files = << >>
    /\ now = 0
    /\ nreq = 0
    /\ pc = [p \in Procs |-> "idle"]
    /\ loc = [p \in Procs |-> IdleLoc]
    /\ solo = [p \in Procs |-> FALSE]
    /\ snap = [p \in Procs |-> NoSnap]
    /\ prev = [p \in Procs |-> None]

(* ------------------------- request bookkeeping ------------------------- *)
Quiet(p) == \A q \in Procs \ {p} : pc[q] \in {"idle", "done"}

\* the response of the request that ran last, if it ran undisturbed and nothing
\* has happened since
LastResponse ==
    IF \E q \in Procs : pc[q] = "done" /\ solo[q]
    THEN LET q == CHOOSE q \in Procs : pc[q] = "done" /\ solo[q]
         IN  Some([kind |-> loc[q].kind, request |-> loc[q].request,
                   status |-> loc[q].status, body |-> loc[q].body])
    ELSE None

\* the worker slot a new request is given: the first one that is not busy
FirstFree(p) == p = "p1" \/ pc["p1"] \notin {"idle", "done"}

\* a request arrives; the responses of earlier requests are no longer tracked
Start(p, l, at) ==
    /\ pc[p] \in {"idle", "done"}
    /\ FirstFree(p)
    /\ nreq < MaxReqs
    /\ nreq' = nreq + 1
    /\ pc' = [q \in Procs |-> IF q = p THEN at ELSE IF pc[q] = "done" THEN "idle" ELSE pc[q]]
    /\ loc' = [q \in Procs |-> IF q = p THEN l ELSE IF pc[q] = "done" THEN IdleLoc ELSE loc[q]]
    /\ solo' = [q \in Procs |-> q = p /\ Quiet(p)]
    /\ snap' = [q \in Procs |-> IF q = p /\ Quiet(p)
                                 THEN [table |-> table, files |-> files] ELSE NoSnap]
    /\ prev' = [q \in Procs |-> IF q = p /\ Quiet(p) THEN LastResponse ELSE None]
    /\ UNCHANGED <<table, files, now>>

\* a step inside a handler
Goto(p, l, at) ==
    /\ pc' = [pc EXCEPT ![p] = at]
    /\ loc' = [loc EXCEPT ![p] = l]
    /\ UNCHANGED <<now, nreq, solo, snap, prev>>

\* the handler returns or raises: the response is sent and the handler's
\* working variables go out of scope
Respond(p, l) ==
    /\ pc' = [pc EXCEPT ![p] = "done"]
    /\ loc' = [loc EXCEPT ![p] = [l EXCEPT !.simulation = None, !.simulations = <<>>,
                                           !.exists = FALSE, !.html_content = <<>>]]
    /\ UNCHANGED <<now, nreq, solo, snap, prev>>

(* ---------------------------- POST /generate --------------------------- *)
StartGenerate(p, request) ==
    Start(p, [IdleLoc EXCEPT !.kind = "generate", !.request = request,
                             !.cache_key = generate_cache_key(request)], "g_lookup")

\* get_cached_html: the SELECT of get_simulation_by_cache_key
GenerateLookup(p) ==
    /\ pc[p] = "g_lookup"
    /\ LET row == select_by_cache_key(table, loc[p].cache_key)
       IN  Goto(p, [loc[p] EXCEPT !.simulation = row],
                IF row = None THEN "g_generate" ELSE "g_touch")
    /\ UNCHANGED <<table, files>>

\* get_cached_html: the UPDATE of get_simulation_by_cache_key
GenerateTouch(p) ==
    /\ pc[p] = "g_touch"
    /\ table' = update_access(table, loc[p].cache_key, now)
    /\ Goto(p, loc[p], "g_file")
    /\ UNCHANGED files

\* get_cached_html: the file check and read, and the handler's `if cached_html`
GenerateReadFile(p) ==
    /\ pc[p] = "g_file"
    /\ LET cached_html == read_cached_file(loc[p].simulation, files)
       IN  IF IsCacheHit(cached_html)
           THEN Respond(p, [loc[p] EXCEPT !.status = 200, !.body = cached_html])
           ELSE Goto(p, loc[p], "g_generate")
    /\ UNCHANGED <<table, files>>

\* a client step that calls the model a second time after a failure
GenerateCall_Retry(p) ==
    /\ pc[p] = "g_generate"
    /\ \/ \E raw \in RawResponses :
             Goto(p, [loc[p] EXCEPT !.gen_calls = @ + 1,
                                    !.html_content = ExtractHtml(raw)], "g_write")
       \/ Respond(p, [loc[p] EXCEPT !.gen_calls = @ + 2, !.status = 500,
                                    !.err = "HTTPException: Gemini"])
    /\ UNCHANGED <<table, files>>

\* generate_html_with_gemini: one call; it returns a text or raises
GenerateCall(p) ==
    /\ pc[p] = "g_generate"
    /\ \/ \E raw \in RawResponses :
             Goto(p, [loc[p] EXCEPT !.gen_calls = @ + 1,
                                    !.html_content = ExtractHtml(raw)], "g_write")
       \/ Respond(p, [loc[p] EXCEPT !.gen_calls = @ + 1, !.status = 500,
                                    !.err = "HTTPException: Gemini"])
    /\ UNCHANGED <<table, files>>

\* a save that goes on to the insert without having written the file
GenerateWriteFile_NoWrite(p) ==
    /\ pc[p] = "g_write"
    /\ Goto(p, loc[p], "g_insert")
    /\ UNCHANGED <<table, files>>

\* save_html_to_cache: the file write
GenerateWriteFile(p) ==
    /\ pc[p] = "g_write"
    /\ files' = WriteFile(files, FilePath(loc[p].cache_key), loc[p].html_content)
    /\ Goto(p, loc[p], "g_insert")
    /\ UNCHANGED table

\* save_html_to_cache: the insert; an exception propagates out of the handler
GenerateInsert(p) ==
    /\ pc[p] = "g_insert"
    /\ LET res == insert_simulation(table, loc[p].cache_key, loc[p].request, "auto",
                                    FilePath(loc[p].cache_key), now)
       IN  /\ table' = res.table
           /\ IF res.err = "none"
              THEN Respond(p, [loc[p] EXCEPT !.status = 201,
                                             !.body = Some(loc[p].html_content)])
              ELSE Respond(p, [loc[p] EXCEPT !.status = 500, !.err = res.err])
    /\ UNCHANGED files

(* --------------------- GET /simulations/{cache_key} -------------------- *)
StartGet(p, cache_key) ==
    Start(p, [IdleLoc EXCEPT !.kind = "get", !.cache_key = cache_key], "s_lookup")

\* get_cached_html: the SELECT; the handler answers 404 when it gets None
GetLookup(p) ==
    /\ pc[p] = "s_lookup"
    /\ LET row == select_by_cache_key(table, loc[p].cache_key)
       IN  IF row = None
           THEN Respond(p, [loc[p] EXCEPT !.status = 404])
           ELSE Goto(p, [loc[p] EXCEPT !.simulation = row], "s_touch")
    /\ UNCHANGED <<table, files>>

\* get_cached_html: the UPDATE of get_simulation_by_cache_key
GetTouch(p) ==
    /\ pc[p] = "s_touch"
    /\ table' = update_access(table, loc[p].cache_key, now)
    /\ Goto(p, loc[p], "s_file")
    /\ UNCHANGED files

\* get_cached_html: the file check and read, and the handler's
\* `if not html_content`
GetReadFile(p) ==
    /\ pc[p] = "s_file"
    /\ LET html_content == read_cached_file(loc[p].simulation, files)
       IN  IF IsCacheHit(html_content)
           THEN Respond(p, [loc[p] EXCEPT !.status = 200, !.body = html_content])
           ELSE Respond(p, [loc[p] EXCEPT !.status = 404])
    /\ UNCHANGED <<table, files>>

(* -------------------- DELETE /simulations/{cache_key} ------------------ *)
StartDelete(p, cache_key) ==
    Start(p, [IdleLoc EXCEPT !.kind = "delete", !.cache_key = cache_key], "d_lookup")

\* the SELECT of get_simulation_by_cache_key and the 404
DeleteLookup(p) ==
    /\ pc[p] = "d_lookup"
    /\ LET row == select_by_cache_key(table, loc[p].cache_key)
       IN  IF row = None
           THEN Respond(p, [loc[p] EXCEPT !.status = 404])
           ELSE Goto(p, [loc[p] EXCEPT !.simulation = row], "d_touch")
    /\ UNCHANGED <<table, files>>

\* the UPDATE of get_simulation_by_cache_key (the lookup counts as an access)
DeleteTouch(p) ==
    /\ pc[p] = "d_touch"
    /\ table' = update_access(table, loc[p].cache_key, now)
    /\ Goto(p, loc[p], "d_exists")
    /\ UNCHANGED files

\* a delete that goes on to unlink without looking whether the file is there
DeleteExists_NoCheck(p) ==
    /\ pc[p] = "d_exists"
    /\ Goto(p, [loc[p] EXCEPT !.exists = TRUE], "d_unlink")
    /\ UNCHANGED <<table, files>>

\* file_path.exists()
DeleteExists(p) ==
    /\ pc[p] = "d_exists"
    /\ IF loc[p].simulation.file_path \in DOMAIN files
       THEN Goto(p, [loc[p] EXCEPT !.exists = TRUE], "d_unlink")
       ELSE Goto(p, [loc[p] EXCEPT !.exists = FALSE], "d_row")
    /\ UNCHANGED <<table, files>>

\* file_path.unlink(): it removes the file, or raises because the file is gone
\* by now or because the file system refuses; an exception becomes a 500
DeleteUnlink(p) ==
    /\ pc[p] = "d_unlink"
    /\ LET path == loc[p].simulation.file_path
       IN  IF path \in DOMAIN files
           THEN \/ /\ files' = Unlink(files, path)
                   /\ Goto(p, loc[p], "d_row")
                \/ /\ UNCHANGED files
                   /\ Respond(p, [loc[p] EXCEPT !.status = 500, !.err = "OSError"])
           ELSE /\ UNCHANGED files
                /\ Respond(p, [loc[p] EXCEPT !.status = 500, !.err = "FileNotFoundError"])
    /\ UNCHANGED table

\* delete_simulation_by_cache_key and the final response
DeleteRow(p) ==
    /\ pc[p] = "d_row"
    /\ LET res == delete_simulation_by_cache_key(table, loc[p].cache_key)
       IN  /\ table' = res.table
           /\ IF res.deleted
              THEN Respond(p, [loc[p] EXCEPT !.status = 200])
              ELSE Respond(p, [loc[p] EXCEPT !.status = 500, !.err = "HTTPException: not deleted"])
    /\ UNCHANGED files

(* --------------------------- DELETE /cache/clear ----------------------- *)
StartClear(p) == Start(p, [IdleLoc EXCEPT !.kind = "clear"], "c_list")

\* simulations = get_all_simulations()
ClearList(p) ==
    /\ pc[p] = "c_list"
    /\ \E s \in get_all_simulations(table, None, 0, None) :
           Goto(p, [loc[p] EXCEPT !.simulations = s, !.deleted_files = 0], "c_exists")
    /\ UNCHANGED <<table, files>>

\* the loop head and file_path.exists() of the next simulation
ClearExists(p) ==
    /\ pc[p] = "c_exists"
    /\ loc[p].simulations # <<>>
    /\ IF Head(loc[p].simulations).file_path \in DOMAIN files
       THEN Goto(p, loc[p], "c_unlink")
       ELSE Goto(p, [loc[p] EXCEPT !.simulations = Tail(@)], "c_exists")
    /\ UNCHANGED <<table, files>>

\* file_path.unlink() and deleted_files += 1; an exception ends the handler
ClearUnlink(p) ==
    /\ pc[p] = "c_unlink"
    /\ LET path == Head(loc[p].simulations).file_path
       IN  IF path \in DOMAIN files
           THEN \/ /\ files' = Unlink(files, path)
                   /\ Goto(p, [loc[p] EXCEPT !.simulations = Tail(@),
                                              !.deleted_files = @ + 1], "c_exists")
                \/ /\ UNCHANGED files
                   /\ Respond(p, [loc[p] EXCEPT !.status = 500, !.err = "OSError"])
           ELSE /\ UNCHANGED files
                /\ Respond(p, [loc[p] EXCEPT !.status = 500, !.err = "FileNotFoundError"])
    /\ UNCHANGED table

\* count = delete_all_simulations() after the loop, and the response
ClearDeleteAll(p) ==
    /\ pc[p] = "c_exists"
    /\ loc[p].simulations = <<>>
    /\ LET res == delete_all_simulations(table)
       IN  /\ table' = res.table
           /\ Respond(p, [loc[p] EXCEPT !.status = 200, !.deleted_count = res.count])
    /\ UNCHANGED files

(* ----------------------------- environment ----------------------------- *)
\* the wall clock advances
Tick ==
    /\ now < MaxClock
    /\ now' = now + 1
    /\ UNCHANGED <<table, files, nreq, pc, loc, solo, snap, prev>>

\* a content file is removed behind the service's back
OutOfBandUnlink(path) ==
    /\ path \in DOMAIN files
    /\ files' = Unlink(files, path)
    /\ solo' = [q \in Procs |-> FALSE]
    /\ snap' = [q \in Procs |-> NoSnap]
    /\ prev' = [q \in Procs |-> None]
    /\ UNCHANGED <<table, now, nreq, pc, loc>>

\* the steps of the request handlers
Handlers ==
    \/ \E p \in Procs, request \in Requests : StartGenerate(p, request)
    \/ \E p \in Procs : GenerateLookup(p)
    \/ \E p \in Procs : GenerateTouch(p)
    \/ \E p \in Procs : GenerateReadFile(p)
    \/ \E p \in Procs : GenerateCall(p)
    \/ \E p \in Procs : GenerateWriteFile(p)
    \/ \E p \in Procs : GenerateInsert(p)
    \/ \E p \in Procs, cache_key \in Keys : StartGet(p, cache_key)
    \/ \E p \in Procs : GetLookup(p)
    \/ \E p \in Procs : GetTouch(p)
    \/ \E p \in Procs : GetReadFile(p)
    \/ \E p \in Procs, cache_key \in Keys : StartDelete(p, cache_key)
    \/ \E p \in Procs : DeleteLookup(p)
    \/ \E p \in Procs : DeleteTouch(p)
    \/ \E p \in Procs : DeleteExists(p)
    \/ \E p \in Procs : DeleteUnlink(p)
    \/ \E p \in Procs : DeleteRow(p)
    \/ \E p \in Procs : StartClear(p)
    \/ \E p \in Procs : ClearList(p)
    \/ \E p \in Procs : ClearExists(p)
    \/ \E p \in Procs : ClearUnlink(p)
    \/ \E p \in Procs : ClearDeleteAll(p)

Next ==
    \/ Handlers
    \/ Tick
    \/ \E path \in { FilePath(k) : k \in Keys } : OutOfBandUnlink(path)

Spec == Init /\ [][Next]_vars

\* the entries a table holds after POST /generate requests answered 201 at
\* some times
StoredRow(request, t) ==
    CHOOSE r \in insert_simulation({}, generate_cache_key(request), request, "auto",
                                   FilePath(generate_cache_key(request)), t).table : TRUE

StoredTables ==
    { { StoredRow(request, at[request]) : request \in S } :
        S \in SUBSET { r \in Requests : None \notin {r.topic_id, r.chapter_id, r.subject_id} },
        at \in [Requests -> 0..MaxClock] }

(* ---------- the service started on a stored entry, left to itself ------ *)
StoredRequest == CHOOSE r \in Requests : r.topic_id = Some(5)

\* the store after one POST /generate answered 201
InitStored ==
    /\ table = { StoredRow(StoredRequest, 0) }
    /\ files = [path \in { FilePath(generate_cache_key(StoredRequest)) } |-> <<"A">>]
    /\ now = 0
    /\ nreq = 0
    /\ pc = [p \in Procs |-> "idle"]
    /\ loc = [p \in Procs |-> IdleLoc]
    /\ solo = [p \in Procs |-> FALSE]
    /\ snap = [p \in Procs |-> NoSnap]
    /\ prev = [p \in Procs |-> None]

\* no file is touched behind the service's back
NextStored ==
    \/ Handlers
    \/ Tick

SpecStored == InitStored /\ [][NextStored]_vars

(* ------- the service caught in the middle of two raced POST /generate ---- *)
\* two POST /generate for the same tuple both missed; the first has written
\* its file, inserted its row and been answered 201, the second has its text
\* from the Generation Client and is about to write it
InitRaced ==
    /\ table = { StoredRow(StoredRequest, 0) }
    /\ files = [path \in { FilePath(generate_cache_key(StoredRequest)) } |-> <<"A">>]
    /\ now = 0
    /\ nreq = 0
    /\ pc = [p \in Procs |-> IF p = "p2" THEN "g_write" ELSE "idle"]
    /\ loc = [p \in Procs |->
                IF p = "p2"
                THEN [IdleLoc EXCEPT !.kind = "generate", !.request = StoredRequest,
                                     !.cache_key = generate_cache_key(StoredRequest),
                                     !.gen_calls = 1, !.html_content = <<"B">>]
                ELSE IdleLoc]
    /\ solo = [p \in Procs |-> FALSE]
    /\ snap = [p \in Procs |-> NoSnap]
    /\ prev = [p \in Procs |-> None]

\* the handlers with a file system that refuses no unlink, and no file
\* touched behind the service's back
NextClosed ==
    /\ Handlers \/ Tick
    /\ \A p \in Procs : loc'[p].err # "OSError"

SpecRaced == InitRaced /\ [][NextClosed]_vars

(* ------------- the service started on a row whose file is gone --------- *)
\* the store after one POST /generate answered 201 and the loss of its file
InitDangling ==
    /\ table = { StoredRow(StoredRequest, 0) }
    /\ files = << >>
    /\ now = 0
    /\ nreq = 0
    /\ pc = [p \in Procs |-> "idle"]
    /\ loc = [p \in Procs |-> IdleLoc]
    /\ solo = [p \in Procs |-> FALSE]
    /\ snap = [p \in Procs |-> NoSnap]
    /\ prev = [p \in Procs |-> None]

SpecDangling == InitDangling /\ [][NextStored]_vars

(* ------------------- the same service with failing reads --------------- *)
\* get_cached_html when the database read raises: the except clause logs the
\* error and returns None, which POST /generate takes as a miss and
\* GET /simulations/{cache_key} answers with 404
LookupRaises(p) ==
    /\ pc[p] \in {"g_lookup", "s_lookup"}
    /\ IF pc[p] = "g_lookup"
       THEN Goto(p, [loc[p] EXCEPT !.read_failed = TRUE], "g_generate")
       ELSE Respond(p, [loc[p] EXCEPT !.read_failed = TRUE, !.status = 404])
    /\ UNCHANGED <<table, files>>

\* get_cached_html when reading the existing content file raises: None again
FileReadRaises(p) ==
    /\ pc[p] \in {"g_file", "s_file"}
    /\ loc[p].simulation.file_path \in DOMAIN files
    /\ IF pc[p] = "g_file"
       THEN Goto(p, [loc[p] EXCEPT !.read_failed = TRUE], "g_generate")
       ELSE Respond(p, [loc[p] EXCEPT !.read_failed = TRUE, !.status = 404])
    /\ UNCHANGED <<table, files>>

NextReadFail ==
    \/ Next
    \/ \E p \in Procs : LookupRaises(p)
    \/ \E p \in Procs : FileReadRaises(p)

SpecReadFail == Init /\ [][NextReadFail]_vars

(* -------------- request validation and key derivation alone ------------ *)
\* a body is validated and, when it is accepted, its cache key is derived;
\* a rejected body is answered with 422 before any handler runs
Validate(p, raw) ==
    /\ pc[p] \in {"idle", "validated", "rejected"}
    /\ IF IsValid(raw)
       THEN /\ pc' = [pc EXCEPT ![p] = "validated"]
            /\ loc' = [loc EXCEPT ![p] =
                   [IdleLoc EXCEPT !.kind = "generate", !.raw = Some(raw),
                                   !.request = Validated(raw),
                                   !.cache_key = generate_cache_key(Validated(raw))]]
       ELSE /\ pc' = [pc EXCEPT ![p] = "rejected"]
            /\ loc' = [loc EXCEPT ![p] =
                   [IdleLoc EXCEPT !.kind = "generate", !.raw = Some(raw), !.status = 422]]
    /\ UNCHANGED <<table, files, now, nreq, solo, snap, prev>>

NextKey == \E p \in Procs, raw \in RawRequests : Validate(p, raw)

SpecKey == Init /\ [][NextKey]_vars

(* ------------------------ GET /simulations/search ---------------------- *)
InitSearch ==
    /\ table \in StoredTables
    /\ files = [path \in { r.file_path : r \in table } |-> <<"A">>]
    /\ now = MaxClock
    /\ nreq = 0
    /\ pc = [p \in Procs |-> "idle"]
    /\ loc = [p \in Procs |-> IdleLoc]
    /\ solo = [p \in Procs |-> FALSE]
    /\ snap = [p \in Procs |-> NoSnap]
    /\ prev = [p \in Procs |-> None]

SearchTerms ==
    { <<"a", "v">>, <<"g", "r", "a", "v">>, <<"M", "e", "c", "h">>, <<"i", "c", "s">>,
      <<"t", "_", "c">>, <<"z">> }

\* search_simulations_endpoint: q is the term, fields the set named in the
\* query string (empty when the parameter is left out); one SELECT
Search(p, q, fields) ==
    /\ pc[p] \in {"idle", "done"} /\ FirstFree(p) /\ nreq < MaxReqs
    /\ \E results \in search_simulations(table, q, fields) :
        Start(p, [IdleLoc EXCEPT !.kind = "search", !.search_term = q,
                                 !.search_fields = fields, !.simulations = results,
                                 !.total = Len(results), !.status = 200], "done")

NextSearch ==
    \E q \in SearchTerms, fields \in SUBSET {"topic", "chapter", "subject"} :
        Search("p1", q, fields)

SpecSearch == InitSearch /\ [][NextSearch]_vars

(* ------------------- the service with its query endpoints -------------- *)
\* GET /simulations
StartList(p, limit) ==
    Start(p, [IdleLoc EXCEPT !.kind = "list", !.limit = limit], "l_select")

\* simulations = get_all_simulations(limit, offset, level)
ListSelect(p) ==
    /\ pc[p] = "l_select"
    /\ \E simulations \in get_all_simulations(table, loc[p].limit, 0, None) :
          Goto(p, [loc[p] EXCEPT !.simulations = simulations], "l_count")
    /\ UNCHANGED <<table, files>>

\* total = get_simulation_count(level) and the response
ListCount(p) ==
    /\ pc[p] = "l_count"
    /\ Respond(p, [loc[p] EXCEPT !.status = 200,
                                 !.total = get_simulation_count(table, None)])
    /\ UNCHANGED <<table, files>>

\* GET /simulations/stats
Statistics(p) ==
    Start(p, [IdleLoc EXCEPT !.kind = "stats", !.status = 200,
                             !.total = get_statistics(table).total_simulations], "done")

NextAll ==
    \/ Next
    \/ \E p \in Procs, limit \in {None, Some(1)} : StartList(p, limit)
    \/ \E p \in Procs : ListSelect(p)
    \/ \E p \in Procs : ListCount(p)
    \/ \E p \in Procs : Statistics(p)
    \/ \E p \in Procs : Search(p, <<"a", "v">>, {"topic"})

SpecAll == Init /\ [][NextAll]_vars

(* ------------------------------ properties ----------------------------- *)
HasRow(tbl, cache_key) == RowsWithKey(tbl, cache_key) # {}

HasFile(fs, cache_key) == FilePath(cache_key) \in DOMAIN fs

\* process p has answered a request of this kind and no request started since
Done(p, kind) == pc[p] = "done" /\ loc[p].kind = kind

\* process p sends its response in this step
Responds(p) == pc[p] # "done" /\ pc'[p] = "done"

GeminiFailed(p) == loc[p].err = "HTTPException: Gemini"

HasNullId(request) == None \in {request.topic_id, request.chapter_id, request.subject_id}

\* C1: a POST /generate that runs alone for a key whose row exists while its
\* file is missing, the Generation Client succeeding, responds 201 and leaves
\* both the row and the file in place.
C1_MissingFileRegenerates ==
    \A p \in Procs :
        ( /\ Done(p, "generate") /\ solo[p] /\ ~GeminiFailed(p)
          /\ HasRow(snap[p].table, loc[p].cache_key)
          /\ ~HasFile(snap[p].files, loc[p].cache_key) )
        => /\ loc[p].status = 201
           /\ HasRow(table, loc[p].cache_key)
           /\ HasFile(files, loc[p].cache_key)

\* C2: a POST /generate that directly follows an identical POST /generate
\* answered with 201 (nothing in between) responds 200 with the same body and
\* without calling the Generation Client, whatever content was generated.
\* (Stated for second requests in which no client call fails, so that a
\* violation shows a client that was called and answered.)
C2_RoundTrip ==
    \A p \in Procs :
        ( /\ Done(p, "generate") /\ solo[p] /\ ~GeminiFailed(p) /\ prev[p] # None
          /\ prev[p][1].kind = "generate" /\ prev[p][1].status = 201
          /\ prev[p][1].request = loc[p].request )
        => /\ loc[p].status = 200
           /\ loc[p].body = prev[p][1].body
           /\ loc[p].gen_calls = 0

\* C3: a POST /generate with a null topic_id, chapter_id or subject_id that
\* runs alone, misses the cache and gets a text from the Generation Client
\* responds 201 and leaves the content file and the metadata row behind.
C3_NullIdsAccepted ==
    \A p \in Procs :
        ( /\ Done(p, "generate") /\ solo[p] /\ ~GeminiFailed(p)
          /\ HasNullId(loc[p].request) /\ loc[p].status # 200 )
        => /\ loc[p].status = 201
           /\ HasRow(table, loc[p].cache_key)
           /\ HasFile(files, loc[p].cache_key)

\* both processes have answered overlapping POST /generate requests for the
\* same key, and each of them missed the cache and got a text from the client
RacedGenerates(p, q) ==
    /\ p # q /\ Done(p, "generate") /\ Done(q, "generate")
    /\ loc[p].cache_key = loc[q].cache_key
    /\ loc[p].gen_calls = 1 /\ loc[q].gen_calls = 1
    /\ ~GeminiFailed(p) /\ ~GeminiFailed(q)

\* C4: of two concurrent POST /generate requests for the same tuple that both
\* miss and both call the Generation Client, exactly one inserts its row
\* (201); the other fails on the unique cache_key and ends with a 5xx.
C4_RaceOneInsertWins ==
    \A p, q \in Procs :
        RacedGenerates(p, q)
        => \/ loc[p].status = 201 /\ loc[q].status = 500
              /\ loc[q].err = "IntegrityError: UNIQUE"
           \/ loc[q].status = 201 /\ loc[p].status = 500
              /\ loc[p].err = "IntegrityError: UNIQUE"

\* C5: while the row and the file of a key exist, no step changes the bytes
\* stored in the file.
C5_ContentImmutable ==
    [][ \A k \in Keys :
          ( HasRow(table, k) /\ HasFile(files, k) /\ HasRow(table', k) /\ HasFile(files', k) )
          => files'[FilePath(k)] = files[FilePath(k)] ]_vars

\* C6: POST /generate answers 200 only from the file check of a lookup that
\* found a row: the row's file exists at that moment, the body is that file's
\* content, and the Generation Client was not called.
C6_HitNeedsRowAndFile ==
    [][ \A p \in Procs :
          ( Responds(p) /\ loc'[p].kind = "generate" /\ loc'[p].status = 200 )
          => /\ pc[p] = "g_file"
             /\ loc[p].simulation # None
             /\ loc[p].simulation.cache_key = generate_cache_key(loc[p].request)
             /\ loc[p].simulation.file_path \in DOMAIN files
             /\ loc'[p].body = Some(files[loc[p].simulation.file_path])
             /\ loc'[p].gen_calls = 0 ]_vars

C6_Witness == \E p \in Procs : Done(p, "generate") /\ loc[p].status = 200

\* C7: a DELETE /simulations/{cache_key} that runs alone and whose file removal
\* the file system does not refuse: if the key had a row it responds 200, the
\* row and the file are gone and every other row and file is as before; if the
\* key had no row it responds 404.
C7_SoloDelete ==
    \A p \in Procs :
        ( Done(p, "delete") /\ solo[p] /\ loc[p].err # "OSError" )
        => IF HasRow(snap[p].table, loc[p].cache_key)
           THEN /\ loc[p].status = 200
                /\ ~HasRow(table, loc[p].cache_key)
                /\ ~HasFile(files, loc[p].cache_key)
                /\ table = snap[p].table \ RowsWithKey(snap[p].table, loc[p].cache_key)
                /\ files = Unlink(snap[p].files, FilePath(loc[p].cache_key))
           ELSE loc[p].status = 404

C7_Witness ==
    \E p \in Procs :
        /\ Done(p, "delete") /\ solo[p] /\ loc[p].status = 200
        /\ HasRow(snap[p].table, loc[p].cache_key)
        /\ HasFile(snap[p].files, loc[p].cache_key)

\* C8: deleting a key that has no row: delete_by_key returns false and leaves
\* the table as it is, and the DELETE endpoint answers 404 from its lookup
\* without changing any row (access_count and accessed_at included) or file.
C8_DeleteAbsentKey ==
    [][ /\ \A k \in Keys :
             ~HasRow(table, k)
             => delete_simulation_by_cache_key(table, k) = [deleted |-> FALSE, table |-> table]
        /\ \A p \in Procs :
             ( pc[p] = "d_lookup" /\ pc'[p] # "d_lookup" /\ ~HasRow(table, loc[p].cache_key) )
             => /\ pc'[p] = "done"
                /\ loc'[p].status = 404
                /\ table' = table
                /\ files' = files ]_vars

C8_Witness ==
    \E p \in Procs :
        /\ Done(p, "delete") /\ loc[p].status = 404
        /\ solo[p] /\ snap[p].table # {} /\ table = snap[p].table

\* C9: after a DELETE /cache/clear that ran alone and answered 200 the table is
\* empty (list, count and statistics say so), no file of a row that existed
\* before is left, and deleted_count is the number of rows there were.
C9_SoloClear ==
    \A p \in Procs :
        ( Done(p, "clear") /\ solo[p] /\ loc[p].status = 200 )
        => /\ table = {}
           /\ get_all_simulations(table, None, 0, None) = { <<>> }
           /\ get_simulation_count(table, None) = 0
           /\ get_statistics(table).total_simulations = 0
           /\ \A r \in snap[p].table : r.file_path \notin DOMAIN files
           /\ loc[p].deleted_count = Cardinality(snap[p].table)

C9_Witness ==
    \E p \in Procs :
        /\ Done(p, "clear") /\ solo[p] /\ loc[p].status = 200
        /\ \E r \in snap[p].table : r.file_path \in DOMAIN snap[p].files

\* C10: a DELETE /cache/clear during which the removal of a file fails still
\* answers 200; when it ran alone the table is empty afterwards and
\* deleted_files is the number of files that were removed.
C10_ClearToleratesUnlinkFailure ==
    \A p \in Procs :
        ( Done(p, "clear") /\ loc[p].err = "OSError" )
        => /\ loc[p].status = 200
           /\ solo[p] => /\ table = {}
                          /\ loc[p].deleted_files =
                               Cardinality(DOMAIN snap[p].files) - Cardinality(DOMAIN files)

\* process p runs the UPDATE of a metadata lookup in this step
TouchStep(p) == pc[p] \in {"g_touch", "s_touch", "d_touch"} /\ pc'[p] # pc[p]

\* a POST /generate that ran alone for a key that had a row when it arrived
\* leaves the row's access_count at least one higher
RepeatedPostCounted ==
    \A p \in Procs :
        ( Done(p, "generate") /\ solo[p] /\ HasRow(snap[p].table, loc[p].cache_key) )
        => /\ HasRow(table, loc[p].cache_key)
           /\ select_by_cache_key(table, loc[p].cache_key).access_count
                >= select_by_cache_key(snap[p].table, loc[p].cache_key).access_count + 1

IsCanonical(v) == v = None \/ v.t = "int" \/ \E n \in -12..12 : v.s = FmtInt(n)

Denotes(v) ==
    IF v = None THEN None
    ELSE IF v.t = "int" THEN Some(v.v)
    ELSE Some(CHOOSE n \in -12..12 : v.s = FmtInt(n))

SameIdentity(r1, r2) ==
    /\ \A v \in {r1.topic_id, r1.chapter_id, r1.subject_id,
                  r2.topic_id, r2.chapter_id, r2.subject_id} : IsCanonical(v)
    /\ Denotes(r1.topic_id) = Denotes(r2.topic_id)
    /\ Denotes(r1.chapter_id) = Denotes(r2.chapter_id)
    /\ Denotes(r1.subject_id) = Denotes(r2.subject_id)
    /\ r1.level = r2.level

\* C12: two accepted requests whose ids stand for the same integers (or are
\* both null), field by field, and whose levels are equal get the same cache
\* key, whatever their display names are and whether an id came as an integer
\* or as its decimal string.
C12_KeyOfIdentityOnly ==
    \A p, q \in Procs :
        ( /\ pc[p] = "validated" /\ pc[q] = "validated"
          /\ SameIdentity(loc[p].raw[1], loc[q].raw[1]) )
        => loc[p].cache_key = loc[q].cache_key

C12_Witness ==
    /\ pc["p1"] = "validated" /\ pc["p2"] = "validated"
    /\ SameIdentity(loc["p1"].raw[1], loc["p2"].raw[1])
    /\ loc["p1"].raw[1].topic # loc["p2"].raw[1].topic
    /\ loc["p1"].raw[1].topic_id = RawInt(-1)
    /\ loc["p2"].raw[1].topic_id = RawStr(<<"-", "1">>)
    /\ loc["p1"].cache_key = loc["p2"].cache_key

\* C13: two accepted requests that differ in topic_id, chapter_id, subject_id
\* or level (as validated: integers or null) get different cache keys.
C13_DistinctTuplesDistinctKeys ==
    \A p, q \in Procs :
        ( /\ pc[p] = "validated" /\ pc[q] = "validated"
          /\ \/ loc[p].request.topic_id # loc[q].request.topic_id
             \/ loc[p].request.chapter_id # loc[q].request.chapter_id
             \/ loc[p].request.subject_id # loc[q].request.subject_id
             \/ loc[p].request.level # loc[q].request.level )
        => loc[p].cache_key # loc[q].cache_key

C13_Witness ==
    /\ pc["p1"] = "validated" /\ pc["p2"] = "validated"
    /\ loc["p1"].request.topic_id = Some(1) /\ loc["p1"].request.chapter_id = Some(12)
    /\ loc["p2"].request.topic_id = Some(11) /\ loc["p2"].request.chapter_id = Some(2)
    /\ loc["p1"].request.subject_id = loc["p2"].request.subject_id
    /\ loc["p1"].request.level = loc["p2"].request.level
    /\ loc["p1"].cache_key # loc["p2"].cache_key

CacheKeysOf(tbl) == { r.cache_key : r \in tbl }

\* C14: a POST /generate whose Generation Client call failed is answered 500
\* with the client's error and no body, the client having been called exactly
\* once; when the request ran alone, the content files are exactly those
\* present when it arrived and the table holds the same keys (nothing
\* written, nothing inserted).
C14_ClientFailure ==
    \A p \in Procs :
        ( Done(p, "generate") /\ GeminiFailed(p) )
        => /\ loc[p].status = 500
           /\ loc[p].body = None
           /\ loc[p].gen_calls = 1
           /\ solo[p] => /\ files = snap[p].files
                          /\ CacheKeysOf(table) = CacheKeysOf(snap[p].table)
                          /\ Cardinality(table) = Cardinality(snap[p].table)

C14_Witness ==
    \E p \in Procs :
        /\ Done(p, "generate") /\ GeminiFailed(p) /\ solo[p]
        /\ loc[p].status = 500 /\ loc[p].gen_calls = 1
        /\ files = snap[p].files

\* C15: a request whose lookup failed to read (the database or an existing
\* content file) is answered 500: it is neither answered 404 nor carried on
\* as a miss that calls the Generation Client.
C15_ReadFailureIs500 ==
    \A p \in Procs :
        ( pc[p] = "done" /\ loc[p].read_failed )
        => /\ loc[p].status = 500
           /\ loc[p].gen_calls = 0

\* the rows without their access statistics
Stored(tbl) == { [r EXCEPT !.accessed_at = 0, !.access_count = 0] : r \in tbl }

\* C16: no two rows of the table share a cache_key; an insert for a key that
\* has a row returns a constraint error and the table as it was; and a POST
\* /generate that ran alone and whose insert hit the UNIQUE constraint is
\* answered 500 with the rows it found still the only rows.
C16_UniqueCacheKey ==
    /\ \A r1, r2 \in table : r1.cache_key = r2.cache_key => r1 = r2
    /\ \A k \in CacheKeysOf(table), request \in Requests :
          /\ insert_simulation(table, k, request, "auto", FilePath(k), now).err
               \in {"IntegrityError: UNIQUE", "IntegrityError: NOT NULL"}
          /\ insert_simulation(table, k, request, "auto", FilePath(k), now).table = table
    /\ \A p \in Procs :
          ( Done(p, "generate") /\ solo[p] /\ loc[p].err = "IntegrityError: UNIQUE" )
          => /\ loc[p].status = 500
             /\ Stored(table) = Stored(snap[p].table)

C16_Witness ==
    \E p \in Procs :
        /\ Done(p, "generate") /\ solo[p] /\ loc[p].err = "IntegrityError: UNIQUE"
        /\ loc[p].status = 500
        /\ HasRow(table, loc[p].cache_key)
        /\ Stored(table) = Stored(snap[p].table)

\* term occurs in text, character for character
Contains(text, term) ==
    \E i \in 0..(Len(text) - Len(term)) : SubSeq(text, i + 1, i + Len(term)) = term

Range(seq) == { seq[i] : i \in DOMAIN seq }

\* C17: a search answers with exactly the rows in which one of the listed
\* fields (all three when none is listed) contains the term as a
\* case-sensitive substring.
C17_SearchIsSubstringMatch ==
    \A p \in Procs :
        Done(p, "search")
        => Range(loc[p].simulations)
            = { r \in table :
                  \E f \in (IF loc[p].search_fields = {} THEN {"topic", "chapter", "subject"}
                             ELSE loc[p].search_fields) :
                      Contains(Chars(r[f]), loc[p].search_term) }

\* a term found only in the chapter is not matched through topic and subject
\* and is matched through the default fields
C17_ChapterOnlyTerm ==
    \A p \in Procs :
        ( Done(p, "search") /\ loc[p].search_term = <<"M", "e", "c", "h">> )
        => /\ loc[p].search_fields = {"topic", "subject"} => loc[p].simulations = <<>>
           /\ ( loc[p].search_fields = {}
                 /\ \E r \in table : r.chapter = "Mechanics" )
               => loc[p].simulations # <<>>

\* C18: a handler reaches the insert only from the file write, in a step that
\* leaves its content in the file and the table untouched; a row is added to
\* the table only by an insert step that answers 201; and an insert that
\* fails answers 500 with the error and leaves the files, the written one
\* included, and the table as they were.
C18_WriteThenInsert ==
    [][ /\ \A p \in Procs :
             ( pc'[p] = "g_insert" /\ pc[p] # "g_insert" )
             => /\ pc[p] = "g_write"
                /\ HasFile(files', loc[p].cache_key)
                /\ files'[FilePath(loc[p].cache_key)] = loc[p].html_content
                /\ table' = table
        /\ ~(CacheKeysOf(table') \subseteq CacheKeysOf(table))
             => \E p \in Procs : /\ pc[p] = "g_insert" /\ pc'[p] = "done"
                                  /\ loc'[p].status = 201
        /\ \A p \in Procs :
             ( pc[p] = "g_insert" /\ pc'[p] = "done" /\ loc'[p].status # 201 )
             => /\ loc'[p].status = 500
                /\ loc'[p].err \in {"IntegrityError: UNIQUE", "IntegrityError: NOT NULL"}
                /\ files' = files
                /\ table' = table ]_vars

C18_Witness ==
    \E p \in Procs :
        /\ Done(p, "generate") /\ solo[p] /\ loc[p].status = 500
        /\ loc[p].err = "IntegrityError: NOT NULL"
        /\ ~HasFile(snap[p].files, loc[p].cache_key)
        /\ HasFile(files, loc[p].cache_key)
        /\ ~HasRow(table, loc[p].cache_key)

\* the access statistics of the rows, by cache key
AccessOf(tbl) == { <<r.cache_key, r.access_count, r.accessed_at>> : r \in tbl }

\* C19 as stated: a request that ran alone and did not return an entry's
\* content (a POST /generate or GET /simulations/{cache_key} that found the
\* content file missing and was not answered 200, a list, a search, a
\* statistics call) leaves the access_count and accessed_at of every row as
\* they were.
C19_OnlyServedLookupsCount ==
    \A p \in Procs :
        ( /\ pc[p] = "done" /\ solo[p]
          /\ \/ /\ loc[p].kind \in {"generate", "get"} /\ loc[p].status # 200
                /\ ~HasFile(snap[p].files, loc[p].cache_key)
             \/ loc[p].kind \in {"list", "search", "stats"} )
        => \A r \in snap[p].table :
              HasRow(table, r.cache_key)
              => <<r.cache_key, r.access_count, r.accessed_at>> \in AccessOf(table)

\* What holds of the code instead: in every step, each row of the table
\* either is new (its key had no row) or is a row of the table before with at
\* most its access_count and accessed_at changed, so created_at, cache_key
\* and file_path never change; and the access_count or accessed_at of a row
\* changes only in the UPDATE step of a metadata lookup for its key, which
\* POST /generate, GET /simulations/{cache_key} and DELETE
\* /simulations/{cache_key} run whenever they find the row, whatever they
\* answer afterwards.
OnlyLookupsTouch ==
    [][ /\ \A r2 \in table' :
             \/ ~HasRow(table, r2.cache_key)
             \/ [r2 EXCEPT !.accessed_at = 0, !.access_count = 0] \in Stored(table)
        /\ \A r \in table :
             ( HasRow(table', r.cache_key)
               /\ <<r.cache_key, r.access_count, r.accessed_at>> \notin AccessOf(table') )
             => \E p \in Procs : TouchStep(p) /\ loc[p].cache_key = r.cache_key ]_vars

\* C20: when two DELETE /simulations/{cache_key} requests for the stored key
\* have run overlapping each other, with nothing else going on and no unlink
\* refused by the file system, each is answered 200 or 404, at least one is
\* answered 200, and neither the row nor the file is left.
C20_RacedDeletes ==
    \A p, q \in Procs :
        ( /\ p # q /\ nreq = 2
          /\ Done(p, "delete") /\ Done(q, "delete")
          /\ loc[p].cache_key = generate_cache_key(StoredRequest)
          /\ loc[q].cache_key = generate_cache_key(StoredRequest)
          /\ loc[p].err # "OSError" /\ loc[q].err # "OSError" )
        => /\ loc[p].status \in {200, 404}
           /\ loc[q].status \in {200, 404}
           /\ loc[p].status = 200 \/ loc[q].status = 200
           /\ ~HasRow(table, loc[p].cache_key)
           /\ ~HasFile(files, loc[p].cache_key)

\* no request is in flight
Quiescent == \A p \in Procs : pc[p] \in {"idle", "done"}

\* C21: whenever no request is in flight, the content file of every row of
\* the table exists.
C21_RowsHaveFiles ==
    Quiescent => \A r \in table : r.file_path \in DOMAIN files

\* C22: a DELETE /simulations/{cache_key} that ran alone for a key whose row
\* existed while its file was missing is answered 200, removes that row and
\* nothing else, and touches no file; and a POST /generate that directly
\* follows a DELETE answered 200, for a tuple with ids whose key has no row,
\* the Generation Client succeeding, is answered 201 with the generated
\* content and leaves the row and the file of the key in place.
C22_DeleteDanglingThenPost ==
    \A p \in Procs :
        /\ ( /\ Done(p, "delete") /\ solo[p]
             /\ HasRow(snap[p].table, loc[p].cache_key)
             /\ ~HasFile(snap[p].files, loc[p].cache_key) )
           => /\ loc[p].status = 200
              /\ table = snap[p].table \ RowsWithKey(snap[p].table, loc[p].cache_key)
              /\ files = snap[p].files
        /\ ( /\ Done(p, "generate") /\ solo[p] /\ ~GeminiFailed(p)
             /\ prev[p] # None /\ prev[p][1].kind = "delete" /\ prev[p][1].status = 200
             /\ ~HasRow(snap[p].table, loc[p].cache_key)
             /\ ~HasNullId(loc[p].request) )
           => /\ loc[p].status = 201
              /\ loc[p].gen_calls = 1
              /\ HasRow(table, loc[p].cache_key)
              /\ HasFile(files, loc[p].cache_key)
              /\ loc[p].body = Some(files[FilePath(loc[p].cache_key)])
              /\ select_by_cache_key(table, loc[p].cache_key).access_count = 0

\* the two requests of the claim are the only ones that ran: the DELETE of the
\* row without file, then the POST for its tuple
C22_Witness ==
    \E p \in Procs :
        /\ nreq = 2
        /\ Done(p, "generate") /\ solo[p] /\ loc[p].status = 201
        /\ loc[p].request = StoredRequest
        /\ prev[p] # None /\ prev[p][1].kind = "delete" /\ prev[p][1].status = 200
        /\ ~HasRow(snap[p].table, loc[p].cache_key)
        /\ ~HasFile(snap[p].files, loc[p].cache_key)
        /\ HasRow(table, loc[p].cache_key)
        /\ HasFile(files, loc[p].cache_key)

====
